---- MODULE Spec2Model ----
(***************************************************************************)
(* State machine of the renderer App component of src/renderer/index.tsx:  *)
(* the tab registry (`tabs`), the global activeTabId, the split layout     *)
(* (left / right / bottom panels holding copies of tabs), the drag state   *)
(* and the compare mode.  One action per event handler; a handler's        *)
(* batched functional state updates are composed in the order the code     *)
(* queues them.                                                            *)
(***************************************************************************)
EXTENDS Integers, Sequences, FiniteSets, TLC

\* ---------------------------------------------------------------- bounds
MaxTabs == 3          \* tabs the registry / the left panel may reach by creation
MaxPanelTabs == 3     \* longest tab list a panel may reach
MaxTicks == 1         \* clock advances explored
MaxOpenCalls == 1     \* handleOpen invocations in flight
MaxTimers == 1        \* setTimeout(0) callbacks queued
MaxSaveCalls == 1     \* handleSave / handleSaveAs invocations in flight
MaxEvents == 4        \* events handled in a run of the App
MaxStoreTabs == 3     \* tabs the editor store may hold

\* ------------------------------------------------------------- constants
StartNow == 1000          \* a reading of Date.now() at startup
DebounceMs == 500         \* handleCompareFiles minimum interval
DefaultTabId == 1         \* id '1' of the default tab
InitSplitRatio == 50
InitBottomSplitRatio == 70
MinRatio == 20
MaxRatio == 80

NoId == 0                 \* undefined / '' tab id
NoPath == "none"          \* filePath undefined
Contents == {"", "a"}     \* texts an editor or a file delivers
Paths == {"/d/f.js"}
PanelIds == {"left", "right", "bottom"}
NoZone == "null"

VARIABLES
  tabs,              \* useState<FileTab[]>: the registry
  activeTabId,       \* useState: the global active tab id
  splitLayout,       \* useState<SplitLayout>
  dragState,         \* useState: drag and drop state
  isCompareMode,     \* useState(false)
  compareFiles,      \* useState: the displayed pair
  showTabSelector,   \* useState(false)
  selectedLeftTab,   \* useState<string>('')
  selectedRightTab,  \* useState<string>('')
  lastCompareTime,   \* useRef<number>(0)
  now,               \* the reading Date.now() returns
  ticks,             \* number of clock advances so far
  openCalls,         \* handleOpen invocations awaiting dialog / readFile: the `tabs` each closed over
  closeTimers,       \* queued setTimeout(0) callbacks of closeTabFromPanel: their tabId, FIFO
  storedTabs,        \* localStorage 'notepad-tabs'
  storedActiveTabId, \* localStorage 'notepad-active-tab'
  saveCalls,         \* handleSave / handleSaveAs invocations awaiting dialog / writeFile
  fileHistory,       \* per tab id: the content it was created or loaded with, and the content last written
  resize,            \* the divider drag in progress: the closure of its document listeners
  menuListeners,     \* ipcRenderer listeners per menu channel
  storeTabs,         \* useEditorStore: tabs
  storeActiveTabId,  \* useEditorStore: activeTabId, NoId for null
  lastEvent,         \* the handler that ran last and its arguments
  events             \* number of events handled so far

vars == <<tabs, activeTabId, splitLayout, dragState, isCompareMode, compareFiles,
          showTabSelector, selectedLeftTab, selectedRightTab, lastCompareTime,
          now, ticks, openCalls, closeTimers, saveCalls, fileHistory, storedTabs,
          storedActiveTabId, resize, menuListeners, storeTabs, storeActiveTabId,
          lastEvent, events>>

compareVars == <<isCompareMode, compareFiles, showTabSelector, selectedLeftTab,
                 selectedRightTab, lastCompareTime>>
clockVars == <<now, ticks>>
asyncVars == <<openCalls, closeTimers, saveCalls>>
storeVars == <<storeTabs, storeActiveTabId>>

\* ------------------------------------------------------------ data model
NoTab == [id |-> NoId, title |-> "", content |-> "", filePath |-> NoPath,
          isDirty |-> FALSE, language |-> ""]

NoPanel == [present |-> FALSE, tabs |-> << >>, activeTabId |-> NoId]

\* no divider drag: no mousemove / mouseup listener on the document
NoResize == [kind |-> "none", start |-> 0]

IdleDrag == [isDragging |-> FALSE, draggedTab |-> NoTab,
             draggedFromPanel |-> "none", dropZone |-> NoZone]

NoCompareFiles == [set |-> FALSE, left |-> "", right |-> "", leftName |-> "", rightName |-> ""]

Event(name, panel, to, id) == [name |-> name, panel |-> panel, to |-> to, id |-> id]

\* a compare request records whether it entered compare mode and the layout it found
CompareEvent(name, entered, layoutBefore) ==
  [name |-> name, panel |-> "none", to |-> IF entered THEN "entered" ELSE "none",
   id |-> NoId, layoutBefore |-> layoutBefore]

\* a drop also records the snapshot of the tab taken at drag start
DropEvent(panel, to, draggedTab) ==
  [name |-> "handleTabDrop", panel |-> panel, to |-> to, id |-> draggedTab.id,
   dragged |-> draggedTab]

\* ------------------------------------------------------- array helpers
\* arr.filter(t => t.id !== id)
WithoutId(arr, id) == SelectSeq(arr, LAMBDA t : t.id # id)

\* arr.some(t => t.id === id)
HasId(arr, id) == \E i \in 1..Len(arr) : arr[i].id = id

\* arr.find(t => t.id === id): the first match, NoTab for undefined
Find(arr, id) ==
  IF HasId(arr, id)
  THEN arr[CHOOSE i \in 1..Len(arr) : arr[i].id = id /\ \A j \in 1..(i-1) : arr[j].id # id]
  ELSE NoTab

\* arr[0]?.id
FirstId(arr) == IF Len(arr) > 0 THEN arr[1].id ELSE NoId

\* arr.map(t => t.id === id ? {...t, ...updates} : t), updates = {content, isDirty: true}
MapContent(arr, id, v) ==
  [i \in 1..Len(arr) |-> IF arr[i].id = id
                         THEN [arr[i] EXCEPT !.content = v, !.isDirty = TRUE]
                         ELSE arr[i]]

IdsOf(arr) == {arr[i].id : i \in 1..Len(arr)}

PanelOf(L, p) == IF p = "left" THEN L.leftPanel
                 ELSE IF p = "right" THEN L.rightPanel
                 ELSE L.bottomPanel

PanelIdsOf(L) == IdsOf(L.leftPanel.tabs) \cup IdsOf(L.rightPanel.tabs) \cup IdsOf(L.bottomPanel.tabs)

\* bound on the lists a handler may build
WithinBound(L) == /\ Len(L.leftPanel.tabs) <= MaxPanelTabs
                  /\ Len(L.rightPanel.tabs) <= MaxPanelTabs
                  /\ Len(L.bottomPanel.tabs) <= MaxPanelTabs

\* bound on the tabs created: a new tab only while fewer than MaxTabs are around
CanCreate == /\ Len(tabs) < MaxTabs
             /\ Cardinality(IdsOf(tabs) \cup PanelIdsOf(splitLayout)) < MaxTabs

\* ----------------------------------------------------------- file history
\* what each tab id was created or loaded with, and what was last written for it
LoadedWith(arr) == [created |-> {<<arr[i].id, arr[i].content>> : i \in 1..Len(arr)},
                    written |-> {}]

CreatedWith(h, tab) == [h EXCEPT !.created = @ \cup {<<tab.id, tab.content>>}]

WrittenWith(h, id, content) ==
  [h EXCEPT !.written = {w \in @ : w[1] # id} \cup {<<id, content>>}]

\* ------------------------------------------------------------ persistence
\* loadTabs: the saved list filtered by the structure check, or the default tab
DefaultTab == [id |-> DefaultTabId, title |-> "untitled", content |-> "",
               filePath |-> NoPath, isDirty |-> FALSE, language |-> "plaintext"]

loadTabs(saved) ==
  IF saved.set
  THEN SelectSeq(saved.value, LAMBDA t : t.id # NoId /\ t.title # "" /\ t.language # "")
  ELSE <<DefaultTab>>

loadActiveTabId(saved, availableTabs) ==
  IF saved.set /\ saved.value # NoId /\ HasId(availableTabs, saved.value)
  THEN saved.value
  ELSE IF Len(availableTabs) > 0 THEN availableTabs[1].id ELSE DefaultTabId

\* the auto-save effects that run after every render in which tabs / activeTabId changed
AutoSave == /\ storedTabs' = [set |-> TRUE, value |-> tabs']
            /\ storedActiveTabId' = [set |-> TRUE, value |-> activeTabId']

\* the layout the useState initialiser builds (lines 657-669)
InitialLayout(loadedTabs, loadedActiveTabId) ==
  [leftPanel |-> [present |-> TRUE, tabs |-> loadedTabs, activeTabId |-> loadedActiveTabId],
   rightPanel |-> NoPanel,
   bottomPanel |-> NoPanel,
   splitRatio |-> InitSplitRatio,
   bottomSplitRatio |-> InitBottomSplitRatio]

NothingStored == [set |-> FALSE, value |-> NoId]

\* what localStorage may hold at startup: nothing (first run), or the tabs an
\* earlier session saved, ids '1' and earlier readings of Date.now()
SessionTab(k) == IF k = 1 THEN DefaultTab
                 ELSE [DefaultTab EXCEPT !.id = StartNow - k]

StoredSessions ==
  {[tabs |-> NothingStored, active |-> NothingStored]} \cup
  {[tabs |-> [set |-> TRUE, value |-> [k \in 1..n |-> SessionTab(k)]],
    active |-> [set |-> TRUE, value |-> SessionTab(a).id]] :
     n \in 1..MaxTabs, a \in 1..MaxTabs}

\* --------------------------------------------------------- menu listeners
\* the channels onMenuAction subscribes the callback to
MenuChannels ==
  {"menu-new-file", "menu-open-file", "menu-save", "menu-save-as", "menu-find",
   "menu-replace", "menu-toggle-theme", "menu-theme-auto", "menu-theme-light",
   "menu-theme-dark", "menu-theme-highcontrast", "menu-toggle-minimap",
   "menu-toggle-wordwrap", "menu-open-settings", "menu-language-plaintext",
   "menu-language-javascript", "menu-language-typescript", "menu-language-html",
   "menu-language-css", "menu-language-json", "menu-language-python",
   "menu-language-java"}

\* the channels the cleanup of the menu effect calls removeAllListeners on
CleanedChannels ==
  {"menu-new-file", "menu-open-file", "menu-save", "menu-save-as", "menu-find",
   "menu-replace", "menu-toggle-theme", "menu-toggle-minimap", "menu-toggle-wordwrap",
   "menu-language-plaintext", "menu-language-javascript", "menu-language-typescript",
   "menu-language-html", "menu-language-css", "menu-language-json",
   "menu-language-python", "menu-language-java"}

NoListeners == [c \in MenuChannels |-> 0]

\* channels.forEach(channel => ipcRenderer.on(channel, () => callback(channel)))
onMenuAction(l) == [c \in MenuChannels |-> l[c] + 1]

\* ipcRenderer.removeAllListeners(channel) for each channel of the list
removeAllListeners(l, channels) == [c \in MenuChannels |-> IF c \in channels THEN 0 ELSE l[c]]

\* a re-run of the effect: the cleanup of the previous run, then the new subscription
MenuEffectRerun(l) == onMenuAction(removeAllListeners(l, CleanedChannels))

\* the effect has the dependencies [tabs, activeTabId]; it is taken to re-run
\* when one of the two has a new value
MenuEffect(l, oldTabs, oldActive, newTabs, newActive) ==
  IF oldTabs # newTabs \/ oldActive # newActive THEN MenuEffectRerun(l) ELSE l

Init ==
  /\ \E session \in StoredSessions :
       /\ session.tabs.set => HasId(session.tabs.value, session.active.value)
       /\ tabs = loadTabs(session.tabs)
       /\ activeTabId = loadActiveTabId(session.active, loadTabs(session.tabs))
       /\ splitLayout = InitialLayout(loadTabs(session.tabs),
                                      loadActiveTabId(session.active, loadTabs(session.tabs)))
  /\ dragState = IdleDrag
  /\ isCompareMode = FALSE
  /\ compareFiles = NoCompareFiles
  /\ showTabSelector = FALSE
  /\ selectedLeftTab = NoId
  /\ selectedRightTab = NoId
  /\ lastCompareTime = 0
  /\ now = StartNow
  /\ ticks = 0
  /\ openCalls = << >>
  /\ closeTimers = << >>
  /\ saveCalls = << >>
  /\ fileHistory = LoadedWith(tabs)
  /\ storedTabs = [set |-> TRUE, value |-> tabs]
  /\ storedActiveTabId = [set |-> TRUE, value |-> activeTabId]
  /\ resize = NoResize
  /\ menuListeners = onMenuAction(NoListeners)
  /\ storeTabs = << >>
  /\ storeActiveTabId = NoId
  /\ lastEvent = Event("init", "none", "none", NoId)
  /\ events = 0

\* ------------------------------------------------------------------ clock
Tick ==
  /\ ticks < MaxTicks
  /\ \E d \in {1, DebounceMs} : now' = now + d
  /\ ticks' = ticks + 1
  /\ lastEvent' = Event("tick", "none", "none", NoId)
  /\ UNCHANGED <<tabs, activeTabId, splitLayout, dragState, compareVars, asyncVars, fileHistory,
                 storedTabs, storedActiveTabId>>

\* ------------------------------------------------------------- handleNew
NewTab(id) == [id |-> id, title |-> "untitled", content |-> "",
               filePath |-> NoPath, isDirty |-> FALSE, language |-> "plaintext"]

AddToLeft(L, tab) ==
  [L EXCEPT !.leftPanel.tabs = Append(@, tab), !.leftPanel.activeTabId = tab.id]

handleNew ==
  LET newTab == NewTab(now) IN
  /\ CanCreate
  /\ WithinBound(AddToLeft(splitLayout, newTab))
  /\ tabs' = Append(tabs, newTab)
  /\ splitLayout' = AddToLeft(splitLayout, newTab)
  /\ fileHistory' = CreatedWith(fileHistory, newTab)
  /\ lastEvent' = Event("handleNew", "left", "none", newTab.id)
  /\ UNCHANGED <<activeTabId, dragState, compareVars, clockVars, asyncVars>>
  /\ AutoSave

\* ------------------------------------------------------ handleSplitRight
\* the button sits in the left panel's tab bar, rendered outside compare mode
SplitRightLayout(L, activeTab) ==
  [L EXCEPT !.rightPanel = [present |-> TRUE, tabs |-> <<activeTab>>,
                            activeTabId |-> activeTab.id]]

SplitRightTabs(arr, activeTab) == WithoutId(arr, activeTab.id)

handleSplitRight ==
  LET activeTab == Find(tabs, activeTabId) IN
  /\ ~isCompareMode
  /\ IF activeTab = NoTab
     THEN UNCHANGED <<tabs, splitLayout>>
     ELSE /\ splitLayout' = SplitRightLayout(splitLayout, activeTab)
          /\ tabs' = SplitRightTabs(tabs, activeTab)
  /\ lastEvent' = Event("handleSplitRight", "left", "right", activeTab.id)
  /\ UNCHANGED <<activeTabId, dragState, compareVars, clockVars, fileHistory, asyncVars>>
  /\ AutoSave

\* ----------------------------------------------------------- drag state
\* onDragStart of a tab element of panel fromPanel
handleTabDragStart(tab, fromPanel) ==
  /\ ~isCompareMode
  /\ dragState' = [isDragging |-> TRUE, draggedTab |-> tab,
                   draggedFromPanel |-> fromPanel, dropZone |-> NoZone]
  /\ lastEvent' = Event("handleTabDragStart", fromPanel, "none", tab.id)
  /\ UNCHANGED <<tabs, activeTabId, splitLayout, compareVars, clockVars, fileHistory, asyncVars,
                 storedTabs, storedActiveTabId>>

TabDragStart ==
  \E fromPanel \in PanelIds :
    \E i \in 1..Len(PanelOf(splitLayout, fromPanel).tabs) :
      handleTabDragStart(PanelOf(splitLayout, fromPanel).tabs[i], fromPanel)

\* handleTabDragEnd with the drag data of the previous state spread into the new one
handleTabDragEnd_KeepsDragData ==
  /\ dragState' = [dragState EXCEPT !.isDragging = FALSE, !.dropZone = NoZone]
  /\ lastEvent' = Event("handleTabDragEnd", dragState.draggedFromPanel, "none",
                        dragState.draggedTab.id)
  /\ UNCHANGED <<tabs, activeTabId, splitLayout, compareVars, clockVars, fileHistory, asyncVars,
                 storedTabs, storedActiveTabId>>

\* variant of handleTabDragEnd that leaves the candidate drop zone in place
handleTabDragEnd_KeepsDropZone ==
  /\ dragState' = [IdleDrag EXCEPT !.dropZone = dragState.dropZone]
  /\ lastEvent' = Event("handleTabDragEnd", dragState.draggedFromPanel, "none",
                        dragState.draggedTab.id)
  /\ UNCHANGED <<tabs, activeTabId, splitLayout, compareVars, clockVars, fileHistory, asyncVars,
                 storedTabs, storedActiveTabId>>

\* onDragEnd of a tab element; the event records the drag it ends
handleTabDragEnd ==
  /\ dragState' = IdleDrag
  /\ lastEvent' = Event("handleTabDragEnd", dragState.draggedFromPanel, "none",
                        dragState.draggedTab.id)
  /\ UNCHANGED <<tabs, activeTabId, splitLayout, compareVars, clockVars, fileHistory, asyncVars,
                 storedTabs, storedActiveTabId>>

\* variant of handleDropZoneEnter without the test of dragState.isDragging
handleDropZoneEnter_Untested(zone) ==
  /\ dragState' = [dragState EXCEPT !.dropZone = zone]
  /\ lastEvent' = Event("handleDropZoneEnter", "none", zone, NoId)
  /\ UNCHANGED <<tabs, activeTabId, splitLayout, compareVars, clockVars, fileHistory, asyncVars,
                 storedTabs, storedActiveTabId>>

\* if (dragState.isDragging) setDragState(prev => ({...prev, dropZone: zone}))
handleDropZoneEnter(zone) ==
  /\ dragState' = IF dragState.isDragging
                  THEN [dragState EXCEPT !.dropZone = zone]
                  ELSE dragState
  /\ lastEvent' = Event("handleDropZoneEnter", "none", zone, NoId)
  /\ UNCHANGED <<tabs, activeTabId, splitLayout, compareVars, clockVars, fileHistory, asyncVars,
                 storedTabs, storedActiveTabId>>

DropZoneEnter == \E zone \in PanelIds : handleDropZoneEnter(zone)

\* setDragState(prev => ({...prev, dropZone: null}))
handleDropZoneLeave ==
  /\ dragState' = [dragState EXCEPT !.dropZone = NoZone]
  /\ lastEvent' = Event("handleDropZoneLeave", "none", "none", NoId)
  /\ UNCHANGED <<tabs, activeTabId, splitLayout, compareVars, clockVars, fileHistory, asyncVars,
                 storedTabs, storedActiveTabId>>

\* ---------------------------------------------------------- handleTabDrop
\* SourceTab returning the snapshot taken at drag start in place of the panel's copy
SourceTab_Snapshot(L, d) ==
  IF \/ d.draggedFromPanel = "left" /\ HasId(L.leftPanel.tabs, d.draggedTab.id)
     \/ d.draggedFromPanel = "right" /\ HasId(L.rightPanel.tabs, d.draggedTab.id)
     \/ d.draggedFromPanel = "bottom" /\ HasId(L.bottomPanel.tabs, d.draggedTab.id)
  THEN d.draggedTab
  ELSE NoTab

\* the tab looked up in the source panel recorded at drag start
SourceTab(L, d) ==
  IF d.draggedFromPanel = "left" THEN Find(L.leftPanel.tabs, d.draggedTab.id)
  ELSE IF d.draggedFromPanel = "right" /\ L.rightPanel.present
       THEN Find(L.rightPanel.tabs, d.draggedTab.id)
  ELSE IF d.draggedFromPanel = "bottom" /\ L.bottomPanel.present
       THEN Find(L.bottomPanel.tabs, d.draggedTab.id)
  ELSE NoTab

\* tabs: prev.X ? [...prev.X.tabs, tab] : [tab], activeTabId: tab.id
AssignRight(L, tab) ==
  [L EXCEPT !.rightPanel = [present |-> TRUE,
                            tabs |-> IF L.rightPanel.present
                                     THEN Append(L.rightPanel.tabs, tab) ELSE <<tab>>,
                            activeTabId |-> tab.id]]

AssignBottom(L, tab) ==
  [L EXCEPT !.bottomPanel = [present |-> TRUE,
                             tabs |-> IF L.bottomPanel.present
                                      THEN Append(L.bottomPanel.tabs, tab) ELSE <<tab>>,
                             activeTabId |-> tab.id]]

\* RemoveFromLeft with the recomputation of the left panel's activeTabId left out
RemoveFromLeft_StaleActive(L, id) ==
  [L EXCEPT !.leftPanel.tabs = WithoutId(@, id)]

\* leftPanel: {...prev.leftPanel, tabs: filter, activeTabId: filter[0]?.id}
RemoveFromLeft(L, id) ==
  [L EXCEPT !.leftPanel.tabs = WithoutId(@, id),
            !.leftPanel.activeTabId = FirstId(WithoutId(L.leftPanel.tabs, id))]

\* lines 1069-1076: the right panel is kept even when the filter empties it
RemoveFromRightKeep(L, id) ==
  IF L.rightPanel.present
  THEN [L EXCEPT !.rightPanel.tabs = WithoutId(@, id),
                 !.rightPanel.activeTabId = FirstId(WithoutId(L.rightPanel.tabs, id))]
  ELSE L

\* remainingTabs.length > 0 ? {...prev.X!, tabs, activeTabId} : undefined
RemoveFromRight(L, id) ==
  LET remainingTabs == WithoutId(L.rightPanel.tabs, id) IN
  [L EXCEPT !.rightPanel = IF Len(remainingTabs) > 0
                           THEN [present |-> TRUE, tabs |-> remainingTabs,
                                 activeTabId |-> FirstId(remainingTabs)]
                           ELSE NoPanel]

RemoveFromBottom(L, id) ==
  LET remainingTabs == WithoutId(L.bottomPanel.tabs, id) IN
  [L EXCEPT !.bottomPanel = IF Len(remainingTabs) > 0
                            THEN [present |-> TRUE, tabs |-> remainingTabs,
                                  activeTabId |-> FirstId(remainingTabs)]
                            ELSE NoPanel]

\* MoveToLeft with the left panel's former tabs not carried over to the right panel
MoveToLeft_DiscardLeft(L, from, tab) ==
  LET newLeftPanel == [L.leftPanel EXCEPT !.tabs = <<tab>>, !.activeTabId = tab.id]
      newRightTabs == IF from = "right" /\ L.rightPanel.present
                      THEN WithoutId(L.rightPanel.tabs, tab.id)
                      ELSE << >>
  IN [L EXCEPT !.leftPanel = newLeftPanel,
               !.rightPanel = IF Len(newRightTabs) > 0
                              THEN [present |-> TRUE, tabs |-> newRightTabs,
                                    activeTabId |-> FirstId(newRightTabs)]
                              ELSE L.rightPanel]

\* the single updater of the toPanel === 'left' branch (lines 1080-1132)
MoveToLeft(L, from, tab) ==
  LET currentLeftTabs == L.leftPanel.tabs
      remainingLeftTabs == WithoutId(currentLeftTabs, tab.id)
      newLeftPanel == [L.leftPanel EXCEPT !.tabs = <<tab>>, !.activeTabId = tab.id]
      newRightTabs == IF from = "right" /\ L.rightPanel.present
                      THEN currentLeftTabs \o WithoutId(L.rightPanel.tabs, tab.id)
                      ELSE IF from = "bottom" THEN currentLeftTabs
                      ELSE << >>
  IN IF from = "left"
     THEN [L EXCEPT !.leftPanel = newLeftPanel,
                    !.rightPanel = IF Len(remainingLeftTabs) > 0
                                   THEN [present |-> TRUE, tabs |-> remainingLeftTabs,
                                         activeTabId |-> FirstId(remainingLeftTabs)]
                                   ELSE L.rightPanel]
     ELSE [L EXCEPT !.leftPanel = newLeftPanel,
                    !.rightPanel = IF Len(newRightTabs) > 0
                                   THEN [present |-> TRUE, tabs |-> newRightTabs,
                                         activeTabId |-> FirstId(newRightTabs)]
                                   ELSE L.rightPanel]

\* the queued setSplitLayout updaters of one drop, applied in order
DropLayout(L, from, toPanel, tab) ==
  IF toPanel = "right"
  THEN LET L1 == AssignRight(L, tab) IN
       IF from = "left" THEN RemoveFromLeft(L1, tab.id)
       ELSE IF from = "right" THEN RemoveFromRightKeep(L1, tab.id)
       ELSE L1
  ELSE IF toPanel = "left"
  THEN LET L1 == MoveToLeft(L, from, tab) IN
       IF from = "bottom" THEN RemoveFromBottom(L1, tab.id) ELSE L1
  ELSE IF toPanel = "bottom"
  THEN LET L1 == AssignBottom(L, tab) IN
       IF from = "left" THEN RemoveFromLeft(L1, tab.id)
       ELSE IF from = "right" THEN RemoveFromRight(L1, tab.id)
       ELSE IF from = "bottom" THEN RemoveFromBottom(L1, tab.id)
       ELSE L1
  ELSE L

\* onDrop of a drop zone; the zones exist only while dragState.isDragging
handleTabDrop(toPanel) ==
  LET sourceTab == SourceTab(splitLayout, dragState) IN
  /\ dragState.isDragging
  /\ IF dragState.draggedTab = NoTab \/ dragState.draggedFromPanel = "none"
        \/ sourceTab = NoTab
     THEN UNCHANGED <<splitLayout, dragState>>
     ELSE /\ WithinBound(DropLayout(splitLayout, dragState.draggedFromPanel, toPanel, sourceTab))
          /\ splitLayout' = DropLayout(splitLayout, dragState.draggedFromPanel, toPanel, sourceTab)
          /\ dragState' = IdleDrag
  /\ lastEvent' = DropEvent(dragState.draggedFromPanel, toPanel, dragState.draggedTab)
  /\ UNCHANGED <<tabs, activeTabId, compareVars, clockVars, fileHistory, asyncVars,
                 storedTabs, storedActiveTabId>>

TabDrop == \E toPanel \in PanelIds : handleTabDrop(toPanel)

\* ------------------------------------------------------------ tab clicks
\* variant of SetActive: a click on the tab that is already active deselects it
SetActive_Toggle(L, p, id) ==
  LET to == IF PanelOf(L, p).activeTabId = id THEN NoId ELSE id IN
  IF p = "left" THEN [L EXCEPT !.leftPanel.activeTabId = to]
  ELSE IF p = "right" THEN [L EXCEPT !.rightPanel.activeTabId = to]
  ELSE [L EXCEPT !.bottomPanel.activeTabId = to]

\* onClick of a tab element: {...prev.X, activeTabId: tab.id}
SetActive(L, p, id) ==
  IF p = "left" THEN [L EXCEPT !.leftPanel.activeTabId = id]
  ELSE IF p = "right" THEN [L EXCEPT !.rightPanel.activeTabId = id]
  ELSE [L EXCEPT !.bottomPanel.activeTabId = id]

TabClick ==
  \E p \in PanelIds :
    \E i \in 1..Len(PanelOf(splitLayout, p).tabs) :
      LET tab == PanelOf(splitLayout, p).tabs[i] IN
      /\ ~isCompareMode
      /\ splitLayout' = SetActive(splitLayout, p, tab.id)
      /\ lastEvent' = Event("tabClick", p,
                             IF /\ lastEvent.name = "tabClick"
                                /\ lastEvent.panel = p
                                /\ lastEvent.id = tab.id
                             THEN "again" ELSE "none",
                             tab.id)
      /\ UNCHANGED <<tabs, activeTabId, dragState, compareVars, clockVars, fileHistory, asyncVars,
                     storedTabs, storedActiveTabId>>

\* ----------------------------------------------------------------- edits
\* updateTab(tabId, {content, isDirty: true})
updateTabContent(arr, tabId, v) == MapContent(arr, tabId, v)

\* the panel's own copy: prev.X.tabs.map(t => t.id === tab.id ? {...t, content, isDirty} : t)
EditPanelCopy(L, p, id, v) ==
  IF p = "left" THEN [L EXCEPT !.leftPanel.tabs = MapContent(@, id, v)]
  ELSE IF p = "right"
       THEN (IF L.rightPanel.present
             THEN [L EXCEPT !.rightPanel.tabs = MapContent(@, id, v)] ELSE L)
  ELSE (IF L.bottomPanel.present
        THEN [L EXCEPT !.bottomPanel.tabs = MapContent(@, id, v)] ELSE L)

\* onChange of the MonacoEditor of tab `tab` in panel p delivering newValue
EditorChange(p, tab, newValue) ==
  /\ ~isCompareMode
  /\ tabs' = updateTabContent(tabs, tab.id, newValue)
  /\ splitLayout' = EditPanelCopy(splitLayout, p, tab.id, newValue)
  /\ lastEvent' = Event("editorChange", p, newValue, tab.id)
  /\ UNCHANGED <<activeTabId, dragState, compareVars, clockVars, fileHistory, asyncVars>>
  /\ AutoSave

Edit ==
  \E p \in PanelIds :
    \E i \in 1..Len(PanelOf(splitLayout, p).tabs) :
      \E newValue \in Contents :
        EditorChange(p, PanelOf(splitLayout, p).tabs[i], newValue)

\* ---------------------------------------------------------------- closing
\* first updater of closeTabFromPanel
CloseInPanel(L, tabId, fromPanel) ==
  IF fromPanel = "left" THEN RemoveFromLeft(L, tabId)
  ELSE IF fromPanel = "right" /\ L.rightPanel.present THEN RemoveFromRight(L, tabId)
  ELSE IF fromPanel = "bottom" /\ L.bottomPanel.present THEN RemoveFromBottom(L, tabId)
  ELSE L

closeTabFromPanel(tabId, fromPanel) ==
  /\ Len(closeTimers) < MaxTimers
  /\ splitLayout' = CloseInPanel(splitLayout, tabId, fromPanel)
  /\ closeTimers' = Append(closeTimers, tabId)
  /\ lastEvent' = Event("closeTabFromPanel", fromPanel, "none", tabId)
  /\ UNCHANGED <<tabs, activeTabId, dragState, compareVars, clockVars, fileHistory, openCalls, saveCalls,
                 storedTabs, storedActiveTabId>>

\* the close button of a left panel tab
LeftCloseButton ==
  \E i \in 1..Len(splitLayout.leftPanel.tabs) :
    /\ ~isCompareMode
    /\ closeTabFromPanel(splitLayout.leftPanel.tabs[i].id, "left")

\* the setTimeout(0) callback of closeTabFromPanel
TabExistsInPanels(L, tabId) ==
  HasId(L.leftPanel.tabs \o L.rightPanel.tabs \o L.bottomPanel.tabs, tabId)

CloseTimerFires ==
  /\ Len(closeTimers) > 0
  /\ LET tabId == Head(closeTimers) IN
     /\ tabs' = IF TabExistsInPanels(splitLayout, tabId) THEN tabs ELSE WithoutId(tabs, tabId)
     /\ lastEvent' = Event("closeTimer", "none", "none", tabId)
  /\ closeTimers' = Tail(closeTimers)
  /\ UNCHANGED <<activeTabId, splitLayout, dragState, compareVars, clockVars, fileHistory, openCalls, saveCalls>>
  /\ AutoSave

\* variant of CloseButtonLayout with the recomputation of activeTabId left out
CloseButtonLayout_StaleActive(L, p, id) ==
  LET remainingTabs == WithoutId(PanelOf(L, p).tabs, id) IN
  IF p = "right"
  THEN [L EXCEPT !.rightPanel = IF Len(remainingTabs) = 0 THEN NoPanel
                                ELSE [L.rightPanel EXCEPT !.tabs = remainingTabs]]
  ELSE [L EXCEPT !.bottomPanel = IF Len(remainingTabs) = 0 THEN NoPanel
                                 ELSE [L.bottomPanel EXCEPT !.tabs = remainingTabs]]

\* the inline close button of a right / bottom panel tab (lines 2086-2103, 2215-2232)
CloseButtonLayout(L, p, id) ==
  LET remainingTabs == WithoutId(PanelOf(L, p).tabs, id) IN
  IF p = "right"
  THEN [L EXCEPT !.rightPanel = IF Len(remainingTabs) = 0 THEN NoPanel
                                ELSE [present |-> TRUE, tabs |-> remainingTabs,
                                      activeTabId |-> FirstId(remainingTabs)]]
  ELSE [L EXCEPT !.bottomPanel = IF Len(remainingTabs) = 0 THEN NoPanel
                                 ELSE [present |-> TRUE, tabs |-> remainingTabs,
                                       activeTabId |-> FirstId(remainingTabs)]]

PanelCloseButton ==
  \E p \in {"right", "bottom"} :
    \E i \in 1..Len(PanelOf(splitLayout, p).tabs) :
      LET tab == PanelOf(splitLayout, p).tabs[i] IN
      /\ ~isCompareMode
      /\ splitLayout' = CloseButtonLayout(splitLayout, p, tab.id)
      /\ lastEvent' = Event("closeButton", p, "none", tab.id)
      /\ UNCHANGED <<tabs, activeTabId, dragState, compareVars, clockVars, fileHistory, asyncVars,
                     storedTabs, storedActiveTabId>>

\* ------------------------------------------------------------ handleOpen
extractFileName(filePath) == IF filePath = "/d/f.js" THEN "f.js" ELSE "Unknown"

detectLanguageFromFileName(fileName) == IF fileName = "f.js" THEN "javascript" ELSE "plaintext"

OpenedTab(id, filePath, content) ==
  [id |-> id, title |-> extractFileName(filePath), content |-> content,
   filePath |-> filePath, isDirty |-> FALSE,
   language |-> detectLanguageFromFileName(extractFileName(filePath))]

RemoveAt(q, i) == SubSeq(q, 1, i - 1) \o SubSeq(q, i + 1, Len(q))

\* handleOpen up to its first await; the continuation keeps the `tabs` of this render
handleOpen ==
  /\ Len(openCalls) < MaxOpenCalls
  /\ openCalls' = Append(openCalls, tabs)
  /\ lastEvent' = Event("handleOpen", "none", "none", NoId)
  /\ UNCHANGED <<tabs, activeTabId, splitLayout, dragState, compareVars, clockVars, fileHistory,
                 closeTimers, saveCalls, storedTabs, storedActiveTabId>>

\* showOpenDialog resolves cancelled, or readFile resolves {success: false}
OpenAbandoned ==
  \E i \in 1..Len(openCalls) : \E why \in {"cancelled", "readFailed"} :
    /\ openCalls' = RemoveAt(openCalls, i)
    /\ lastEvent' = Event("openAbandoned", "none", why, NoId)
    /\ UNCHANGED <<tabs, activeTabId, splitLayout, dragState, compareVars, clockVars, fileHistory,
                   closeTimers, saveCalls, storedTabs, storedActiveTabId>>

\* setTabs([...tabs, newTab]) with the tabs closed over at the call
OpenTabs(closedOverTabs, newTab) == Append(closedOverTabs, newTab)

\* readFile resolves with content: lines 1273-1298
OpenCompletes ==
  \E i \in 1..Len(openCalls) : \E filePath \in Paths : \E content \in Contents :
    LET newTab == OpenedTab(now, filePath, content) IN
    /\ Len(openCalls[i]) < MaxTabs
    /\ WithinBound(AddToLeft(splitLayout, newTab))
    /\ tabs' = OpenTabs(openCalls[i], newTab)
    /\ activeTabId' = newTab.id
    /\ splitLayout' = AddToLeft(splitLayout, newTab)
    /\ openCalls' = RemoveAt(openCalls, i)
    /\ fileHistory' = CreatedWith(fileHistory, newTab)
    /\ lastEvent' = Event("openCompletes", "left", "none", newTab.id)
    /\ UNCHANGED <<dragState, compareVars, clockVars, closeTimers, saveCalls>>
    /\ AutoSave

\* ------------------------------------------------- handleSave, handleSaveAs
\* updateTab(activeTab.id, {isDirty: false})
SavedTab(t) == [t EXCEPT !.isDirty = FALSE]

\* updateTab(activeTab.id, {title, filePath, isDirty: false, language})
SavedAsTab(t, filePath) ==
  [t EXCEPT !.title = extractFileName(filePath),
            !.filePath = filePath,
            !.isDirty = FALSE,
            !.language = detectLanguageFromFileName(extractFileName(filePath))]

\* setTabs(prevTabs => prevTabs.map(tab => tab.id === tabId ? {...tab, ...updates} : tab))
updateTabSaved(arr, tabId, kind, filePath) ==
  [i \in 1..Len(arr) |->
     IF arr[i].id = tabId
     THEN (IF kind = "save" THEN SavedTab(arr[i]) ELSE SavedAsTab(arr[i], filePath))
     ELSE arr[i]]

\* the invocation in flight: the activeTab of the render it was called in
SaveCall(activeTab, kind) == [tab |-> activeTab, kind |-> kind]

\* handleSave up to its first await: writeFile for a tab with a filePath,
\* otherwise handleSaveAs (the save dialog)
handleSave ==
  LET activeTab == Find(tabs, activeTabId) IN
  /\ Len(saveCalls) < MaxSaveCalls
  /\ saveCalls' = IF activeTab = NoTab THEN saveCalls
                  ELSE Append(saveCalls,
                              SaveCall(activeTab, IF activeTab.filePath # NoPath
                                                  THEN "save" ELSE "saveAs"))
  /\ lastEvent' = Event("handleSave", "none", "none", activeTab.id)
  /\ UNCHANGED <<tabs, activeTabId, splitLayout, dragState, compareVars, clockVars,
                 fileHistory, openCalls, closeTimers, storedTabs, storedActiveTabId>>

\* handleSaveAs up to its first await (showSaveDialog)
handleSaveAs ==
  LET activeTab == Find(tabs, activeTabId) IN
  /\ Len(saveCalls) < MaxSaveCalls
  /\ saveCalls' = IF activeTab = NoTab THEN saveCalls
                  ELSE Append(saveCalls, SaveCall(activeTab, "saveAs"))
  /\ lastEvent' = Event("handleSaveAs", "none", "none", activeTab.id)
  /\ UNCHANGED <<tabs, activeTabId, splitLayout, dragState, compareVars, clockVars,
                 fileHistory, openCalls, closeTimers, storedTabs, storedActiveTabId>>

\* variant of SaveAbandoned: a failed save that still marks the tab clean
SaveAbandoned_MarksClean ==
  \E i \in 1..Len(saveCalls) : \E why \in {"cancelled", "writeFailed"} :
    /\ why = "cancelled" => saveCalls[i].kind = "saveAs"
    /\ saveCalls' = RemoveAt(saveCalls, i)
    /\ tabs' = updateTabSaved(tabs, saveCalls[i].tab.id, "save", NoPath)
    /\ lastEvent' = Event("saveAbandoned", "none", why, saveCalls[i].tab.id)
    /\ UNCHANGED <<activeTabId, splitLayout, dragState, compareVars, clockVars,
                   fileHistory, openCalls, closeTimers>>
    /\ AutoSave

\* the save dialog is cancelled, or writeFile resolves {success: false}
SaveAbandoned ==
  \E i \in 1..Len(saveCalls) : \E why \in {"cancelled", "writeFailed"} :
    /\ why = "cancelled" => saveCalls[i].kind = "saveAs"
    /\ saveCalls' = RemoveAt(saveCalls, i)
    /\ lastEvent' = Event("saveAbandoned", "none", why, saveCalls[i].tab.id)
    /\ UNCHANGED <<tabs, activeTabId, splitLayout, dragState, compareVars, clockVars,
                   fileHistory, openCalls, closeTimers, storedTabs, storedActiveTabId>>

\* writeFile resolves {success: true}: the closed-over activeTab.content is on
\* disk and the registry entry is updated
SaveCompletes ==
  \E i \in 1..Len(saveCalls) : \E chosenPath \in Paths :
    LET call == saveCalls[i]
        filePath == IF call.kind = "save" THEN call.tab.filePath ELSE chosenPath
    IN
    /\ tabs' = updateTabSaved(tabs, call.tab.id, call.kind, filePath)
    /\ fileHistory' = WrittenWith(fileHistory, call.tab.id, call.tab.content)
    /\ saveCalls' = RemoveAt(saveCalls, i)
    /\ lastEvent' = Event("saveCompletes", "none", call.kind, call.tab.id)
    /\ UNCHANGED <<activeTabId, splitLayout, dragState, compareVars, clockVars,
                   openCalls, closeTimers>>
    /\ AutoSave

\* --------------------------------------------------------------- compare
CompareLayout(L, leftTab, rightTab) ==
  [L EXCEPT !.leftPanel.tabs = <<leftTab>>,
            !.leftPanel.activeTabId = leftTab.id,
            !.rightPanel = [present |-> TRUE, tabs |-> <<rightTab>>,
                            activeTabId |-> rightTab.id]]

ComparePair(leftTab, rightTab) ==
  [set |-> TRUE, left |-> leftTab.content, right |-> rightTab.content,
   leftName |-> leftTab.title, rightName |-> rightTab.title]

\* variant of handleCompareFiles: with fewer than two tabs the selector is shown
handleCompareFiles_SelectorForOne ==
  /\ lastEvent' = CompareEvent("handleCompareFiles",
                               now - lastCompareTime >= DebounceMs /\ Len(tabs) = 2,
                               splitLayout)
  /\ IF now - lastCompareTime < DebounceMs
     THEN UNCHANGED <<splitLayout, compareVars>>
     ELSE /\ lastCompareTime' = now
          /\ IF Len(tabs) = 2
             THEN /\ splitLayout' = CompareLayout(splitLayout, tabs[1], tabs[2])
                  /\ isCompareMode' = TRUE
                  /\ compareFiles' = ComparePair(tabs[1], tabs[2])
                  /\ UNCHANGED <<showTabSelector, selectedLeftTab, selectedRightTab>>
             ELSE /\ selectedLeftTab' = FirstId(tabs)
                  /\ selectedRightTab' = FirstId(tabs)
                  /\ showTabSelector' = TRUE
                  /\ UNCHANGED <<splitLayout, isCompareMode, compareFiles>>
  /\ UNCHANGED <<tabs, activeTabId, dragState, clockVars, fileHistory, asyncVars,
                 storedTabs, storedActiveTabId>>

\* variant of handleCompareFiles: a rejected invocation restarts the debounce window
handleCompareFiles_RestartsWindow ==
  /\ lastEvent' = CompareEvent("handleCompareFiles",
                               now - lastCompareTime >= DebounceMs /\ Len(tabs) = 2,
                               splitLayout)
  /\ lastCompareTime' = now
  /\ IF now - lastCompareTime < DebounceMs
     THEN UNCHANGED <<splitLayout, isCompareMode, compareFiles, showTabSelector,
                      selectedLeftTab, selectedRightTab>>
     ELSE IF Len(tabs) < 2
          THEN UNCHANGED <<splitLayout, isCompareMode, compareFiles, showTabSelector,
                           selectedLeftTab, selectedRightTab>>
          ELSE IF Len(tabs) = 2
          THEN /\ splitLayout' = CompareLayout(splitLayout, tabs[1], tabs[2])
               /\ isCompareMode' = TRUE
               /\ compareFiles' = ComparePair(tabs[1], tabs[2])
               /\ UNCHANGED <<showTabSelector, selectedLeftTab, selectedRightTab>>
          ELSE /\ selectedLeftTab' = tabs[1].id
               /\ selectedRightTab' = tabs[2].id
               /\ showTabSelector' = TRUE
               /\ UNCHANGED <<splitLayout, isCompareMode, compareFiles>>
  /\ UNCHANGED <<tabs, activeTabId, dragState, clockVars, fileHistory, asyncVars,
                 storedTabs, storedActiveTabId>>

\* isHandlingCompare is set and cleared within the one synchronous run of the handler
handleCompareFiles ==
  /\ lastEvent' = CompareEvent("handleCompareFiles",
                               now - lastCompareTime >= DebounceMs /\ Len(tabs) = 2,
                               splitLayout)
  /\ IF now - lastCompareTime < DebounceMs
     THEN UNCHANGED <<splitLayout, compareVars>>
     ELSE /\ lastCompareTime' = now
          /\ IF Len(tabs) < 2
             THEN UNCHANGED <<splitLayout, isCompareMode, compareFiles, showTabSelector,
                              selectedLeftTab, selectedRightTab>>
             ELSE IF Len(tabs) = 2
             THEN /\ splitLayout' = CompareLayout(splitLayout, tabs[1], tabs[2])
                  /\ isCompareMode' = TRUE
                  /\ compareFiles' = ComparePair(tabs[1], tabs[2])
                  /\ UNCHANGED <<showTabSelector, selectedLeftTab, selectedRightTab>>
             ELSE /\ selectedLeftTab' = tabs[1].id
                  /\ selectedRightTab' = tabs[2].id
                  /\ showTabSelector' = TRUE
                  /\ UNCHANGED <<splitLayout, isCompareMode, compareFiles>>
  /\ UNCHANGED <<tabs, activeTabId, dragState, clockVars, fileHistory, asyncVars,
                 storedTabs, storedActiveTabId>>

\* the two <select> elements of the tab selector, options = the registry's tabs
SelectCompareTab ==
  \E side \in {"left", "right"} : \E i \in 1..Len(tabs) :
    /\ showTabSelector
    /\ IF side = "left"
       THEN selectedLeftTab' = tabs[i].id /\ UNCHANGED selectedRightTab
       ELSE selectedRightTab' = tabs[i].id /\ UNCHANGED selectedLeftTab
    /\ lastEvent' = Event("selectCompareTab", side, "none", tabs[i].id)
    /\ UNCHANGED <<tabs, activeTabId, splitLayout, dragState, isCompareMode, compareFiles,
                   showTabSelector, lastCompareTime, clockVars, fileHistory, asyncVars,
                   storedTabs, storedActiveTabId>>

\* the selector's Cancel / close buttons
CloseTabSelector ==
  /\ showTabSelector
  /\ showTabSelector' = FALSE
  /\ lastEvent' = Event("closeTabSelector", "none", "none", NoId)
  /\ UNCHANGED <<tabs, activeTabId, splitLayout, dragState, isCompareMode, compareFiles,
                 selectedLeftTab, selectedRightTab, lastCompareTime, clockVars, fileHistory, asyncVars,
                 storedTabs, storedActiveTabId>>

\* variant of startTabComparison without the test of lines 1465-1472
startTabComparison_ComparesWithItself ==
  LET leftTab == Find(tabs, selectedLeftTab)
      rightTab == Find(tabs, selectedRightTab)
  IN
  /\ showTabSelector
  /\ lastEvent' = CompareEvent("startTabComparison",
                               ~(leftTab = NoTab \/ rightTab = NoTab),
                               splitLayout)
  /\ IF leftTab = NoTab \/ rightTab = NoTab
     THEN UNCHANGED <<splitLayout, isCompareMode, compareFiles, showTabSelector>>
     ELSE /\ splitLayout' = CompareLayout(splitLayout, leftTab, rightTab)
          /\ showTabSelector' = FALSE
          /\ isCompareMode' = TRUE
          /\ compareFiles' = ComparePair(leftTab, rightTab)
  /\ UNCHANGED <<tabs, activeTabId, dragState, selectedLeftTab, selectedRightTab,
                 lastCompareTime, clockVars, fileHistory, asyncVars, storedTabs, storedActiveTabId>>

startTabComparison ==
  LET leftTab == Find(tabs, selectedLeftTab)
      rightTab == Find(tabs, selectedRightTab)
  IN
  /\ showTabSelector
  /\ lastEvent' = CompareEvent("startTabComparison",
                               ~(leftTab = NoTab \/ rightTab = NoTab \/ leftTab.id = rightTab.id),
                               splitLayout)
  /\ IF leftTab = NoTab \/ rightTab = NoTab \/ leftTab.id = rightTab.id
     THEN UNCHANGED <<splitLayout, isCompareMode, compareFiles, showTabSelector>>
     ELSE /\ splitLayout' = CompareLayout(splitLayout, leftTab, rightTab)
          /\ showTabSelector' = FALSE
          /\ isCompareMode' = TRUE
          /\ compareFiles' = ComparePair(leftTab, rightTab)
  /\ UNCHANGED <<tabs, activeTabId, dragState, selectedLeftTab, selectedRightTab,
                 lastCompareTime, clockVars, fileHistory, asyncVars, storedTabs, storedActiveTabId>>

\* the Exit Compare button of the diff view
onExitCompare ==
  /\ isCompareMode
  /\ isCompareMode' = FALSE
  /\ compareFiles' = NoCompareFiles
  /\ lastEvent' = Event("onExitCompare", "none", "none", NoId)
  /\ UNCHANGED <<tabs, activeTabId, splitLayout, dragState, showTabSelector,
                 selectedLeftTab, selectedRightTab, lastCompareTime, clockVars, fileHistory, asyncVars,
                 storedTabs, storedActiveTabId>>

\* case 'menu-exit-compare' (lines 833-851)
MergeIntoLeft(L) ==
  [L EXCEPT !.leftPanel.tabs = L.leftPanel.tabs \o L.rightPanel.tabs \o L.bottomPanel.tabs,
            !.rightPanel = NoPanel,
            !.bottomPanel = NoPanel]

menuExitCompare ==
  /\ WithinBound(MergeIntoLeft(splitLayout))
  /\ isCompareMode' = FALSE
  /\ compareFiles' = NoCompareFiles
  /\ splitLayout' = MergeIntoLeft(splitLayout)
  /\ lastEvent' = Event("menuExitCompare", "none", "none", NoId)
  /\ UNCHANGED <<tabs, activeTabId, dragState, showTabSelector,
                 selectedLeftTab, selectedRightTab, lastCompareTime, clockVars, fileHistory, asyncVars,
                 storedTabs, storedActiveTabId>>

\* --------------------------------------------------------------- restart
\* the window is closed and the App constructed again from localStorage
Restart ==
  LET loadedTabs == loadTabs(storedTabs)
      loadedActiveTabId == loadActiveTabId(storedActiveTabId, loadedTabs)
  IN
  /\ tabs' = loadedTabs
  /\ activeTabId' = loadedActiveTabId
  /\ splitLayout' = InitialLayout(loadedTabs, loadedActiveTabId)
  /\ dragState' = IdleDrag
  /\ isCompareMode' = FALSE
  /\ compareFiles' = NoCompareFiles
  /\ showTabSelector' = FALSE
  /\ selectedLeftTab' = NoId
  /\ selectedRightTab' = NoId
  /\ lastCompareTime' = 0
  /\ openCalls' = << >>
  /\ closeTimers' = << >>
  /\ saveCalls' = << >>
  /\ fileHistory' = LoadedWith(loadedTabs)
  /\ resize' = NoResize
  /\ menuListeners' = onMenuAction(NoListeners)
  /\ lastEvent' = Event("restart", "none", "none", NoId)
  /\ UNCHANGED clockVars
  /\ AutoSave

\* ------------------------------------------------- the zustand editor store
\* useEditorStore: tabs and activeTabId of the store the TabBar and MenuBar use
StoreIds == 1..MaxStoreTabs

StoreTab(id, content, isDirty) == [id |-> id, content |-> content, isDirty |-> isDirty]

\* state.tabs.findIndex(tab => tab.id === tabId), counted from 1, 0 when absent
StoreIndexOf(arr, tabId) ==
  IF HasId(arr, tabId)
  THEN CHOOSE i \in 1..Len(arr) : arr[i].id = tabId /\ \A j \in 1..(i - 1) : arr[j].id # tabId
  ELSE 0

Max(a, b) == IF a > b THEN a ELSE b
Min(a, b) == IF a < b THEN a ELSE b

\* variant of StoreActiveAfterClose: the active id is kept when its tab is closed
StoreActiveAfterClose_KeepsActive(arr, active, tabId) == active

\* newActiveTabId of closeTab (lines 102-112)
StoreActiveAfterClose(arr, active, tabId) ==
  LET newTabs == WithoutId(arr, tabId) IN
  IF active = tabId
  THEN (IF Len(newTabs) > 0
        THEN newTabs[Max(1, Min(StoreIndexOf(arr, tabId), Len(newTabs)))].id
        ELSE NoId)
  ELSE active

\* a step of the store leaves the App's state alone
StoreOnly ==
  UNCHANGED <<tabs, activeTabId, splitLayout, dragState, compareVars, clockVars, asyncVars,
              fileHistory, storedTabs, storedActiveTabId, resize, menuListeners, events>>

\* addTab(tabData): newFile and a successful openFile; the id is
\* `tab-${Date.now()}-${random}`, taken as an id no open tab has
Store_addTab ==
  \E id \in StoreIds \ IdsOf(storeTabs) : \E content \in Contents :
    /\ Len(storeTabs) < MaxStoreTabs
    /\ storeTabs' = Append(storeTabs, StoreTab(id, content, FALSE))
    /\ storeActiveTabId' = id
    /\ lastEvent' = Event("store.addTab", "none", "none", id)
    /\ StoreOnly

Store_closeTabCall(tabId) ==
  /\ storeTabs' = WithoutId(storeTabs, tabId)
  /\ storeActiveTabId' = StoreActiveAfterClose(storeTabs, storeActiveTabId, tabId)
  /\ lastEvent' = Event("store.closeTab", "none", "none", tabId)
  /\ StoreOnly

\* closeTab with any id
Store_closeTab == \E tabId \in StoreIds : Store_closeTabCall(tabId)

\* closeTab with the id of an open tab
Store_closeOpenTab == \E tabId \in IdsOf(storeTabs) : Store_closeTabCall(tabId)

\* setActiveTab: set({ activeTabId: tabId })
Store_setActiveTabCall(tabId) ==
  /\ storeActiveTabId' = tabId
  /\ lastEvent' = Event("store.setActiveTab", "none", "none", tabId)
  /\ UNCHANGED storeTabs
  /\ StoreOnly

\* setActiveTab with any id
Store_setActiveTab == \E tabId \in StoreIds : Store_setActiveTabCall(tabId)

\* setActiveTab with the id of an open tab
Store_setActiveOpenTab == \E tabId \in IdsOf(storeTabs) : Store_setActiveTabCall(tabId)

Store_updateTabContent ==
  \E tabId \in StoreIds : \E content \in Contents :
    /\ storeTabs' = MapContent(storeTabs, tabId, content)
    /\ lastEvent' = Event("store.updateTabContent", "none", content, tabId)
    /\ UNCHANGED storeActiveTabId
    /\ StoreOnly

Store_markTabDirty ==
  \E tabId \in StoreIds : \E isDirty \in BOOLEAN :
    /\ storeTabs' = [i \in 1..Len(storeTabs) |->
                       IF storeTabs[i].id = tabId
                       THEN [storeTabs[i] EXCEPT !.isDirty = isDirty]
                       ELSE storeTabs[i]]
    /\ lastEvent' = Event("store.markTabDirty", "none", "none", tabId)
    /\ UNCHANGED storeActiveTabId
    /\ StoreOnly

\* ---------------------------------------------------------- divider drags
\* containerRect of the divider's parent, along the axis of the drag
ContainerOrigin == 10
ContainerExtent == 400

\* clientX / clientY of the mousemove events delivered during a drag
PointerPositions == {-100, 130, 1000}

\* where the pointer is at mousedown: on the divider
DividerPosition(ratio) == ContainerOrigin + (ratio * ContainerExtent) \div 100

\* variant of ResizeRatio without Math.max / Math.min
ResizeRatio_Unclamped(start, client) ==
  ((start - ContainerOrigin + (client - start)) * 100) \div ContainerExtent

\* Math.max(20, Math.min(80, ((start - rect.left + delta) / rect.width) * 100)),
\* in whole percents
ResizeRatio(start, client) ==
  Max(MinRatio, Min(MaxRatio,
      ((start - ContainerOrigin + (client - start)) * 100) \div ContainerExtent))

\* onMouseDown of the divider between the left and the right panel
handleVerticalResize ==
  /\ ~isCompareMode
  /\ splitLayout.rightPanel.present
  /\ resize' = [kind |-> "vertical", start |-> DividerPosition(splitLayout.splitRatio)]
  /\ lastEvent' = Event("handleVerticalResize", "none", "none", NoId)
  /\ UNCHANGED <<tabs, activeTabId, splitLayout, dragState, compareVars, clockVars,
                 fileHistory, asyncVars, storedTabs, storedActiveTabId>>

\* onMouseDown of the divider above the bottom panel
handleHorizontalResize ==
  /\ ~isCompareMode
  /\ splitLayout.bottomPanel.present
  /\ resize' = [kind |-> "horizontal",
                start |-> DividerPosition(splitLayout.bottomSplitRatio)]
  /\ lastEvent' = Event("handleHorizontalResize", "none", "none", NoId)
  /\ UNCHANGED <<tabs, activeTabId, splitLayout, dragState, compareVars, clockVars,
                 fileHistory, asyncVars, storedTabs, storedActiveTabId>>

\* handleMouseMove of the drag in progress
ResizeMouseMove ==
  \E client \in PointerPositions :
    /\ resize.kind # "none"
    /\ splitLayout' =
         IF resize.kind = "vertical"
         THEN [splitLayout EXCEPT !.splitRatio = ResizeRatio(resize.start, client)]
         ELSE [splitLayout EXCEPT !.bottomSplitRatio = ResizeRatio(resize.start, client)]
    /\ lastEvent' = Event("resizeMouseMove", resize.kind, client, NoId)
    /\ UNCHANGED <<tabs, activeTabId, dragState, compareVars, clockVars, resize,
                   fileHistory, asyncVars, storedTabs, storedActiveTabId>>

\* handleMouseUp: both document listeners are removed
ResizeMouseUp ==
  /\ resize.kind # "none"
  /\ resize' = NoResize
  /\ lastEvent' = Event("resizeMouseUp", resize.kind, "none", NoId)
  /\ UNCHANGED <<tabs, activeTabId, splitLayout, dragState, compareVars, clockVars,
                 fileHistory, asyncVars, storedTabs, storedActiveTabId>>

\* ================================================================ claims
Panels == {splitLayout.leftPanel, splitLayout.rightPanel, splitLayout.bottomPanel}

\* the step is a drop from panel `from` on zone `to` that found its source tab
IsDrop(from, to) ==
  /\ lastEvent'.name = "handleTabDrop"
  /\ lastEvent'.panel = from
  /\ lastEvent'.to = to
  /\ SourceTab(splitLayout, dragState) # NoTab

\* C1: every tab id held in the tabs list of the left, right or bottom panel is
\* the id of a tab in the registry.
C1_PanelTabsInRegistry == PanelIdsOf(splitLayout) \subseteq IdsOf(tabs)

\* C2: between event handlers no tab id is present in the tabs list of more than
\* one of the left, right and bottom panels.
C2_OnePanelPerTab ==
  /\ IdsOf(splitLayout.leftPanel.tabs) \cap IdsOf(splitLayout.rightPanel.tabs) = {}
  /\ IdsOf(splitLayout.leftPanel.tabs) \cap IdsOf(splitLayout.bottomPanel.tabs) = {}
  /\ IdsOf(splitLayout.rightPanel.tabs) \cap IdsOf(splitLayout.bottomPanel.tabs) = {}

\* C3: the registry never becomes empty, and while it holds exactly one tab a
\* close (left close button, its deferred step, right / bottom close button)
\* changes neither the registry nor the layout.
IsClose == lastEvent'.name \in {"closeTabFromPanel", "closeTimer", "closeButton"}

C3_RegistryNeverEmpty ==
  /\ [](Len(tabs) >= 1)
  /\ [][(IsClose /\ Len(tabs) = 1) => UNCHANGED <<tabs, splitLayout>>]_vars

OneWithId(arr, id) == Cardinality({i \in 1..Len(arr) : arr[i].id = id}) = 1

\* C4: between event handlers, for every tab id that is both in the registry and
\* in some panel's tabs list, the registry entry and the panel's copy have the
\* same content.
\* Stated for the ids that name one registry entry and one copy in the panel
\* (ids shared by two tabs are the subject of another claim).
C4_CopiesAgreeOnContent ==
  \A panel \in Panels : \A id \in IdsOf(panel.tabs) \cap IdsOf(tabs) :
    (OneWithId(tabs, id) /\ OneWithId(panel.tabs, id))
      => Find(tabs, id).content = Find(panel.tabs, id).content

\* C5: a drop, for any source panel and any target zone, leaves the set of tab
\* ids held across the three panels as it was.
C5_DropKeepsHeldTabs ==
  [][(\E from \in PanelIds, to \in PanelIds : IsDrop(from, to))
       => PanelIdsOf(splitLayout') = PanelIdsOf(splitLayout)]_vars

\* C6: the right panel and the bottom panel each either do not exist or hold at
\* least one tab.
C6_NoEmptySidePanel ==
  /\ splitLayout.rightPanel.present => Len(splitLayout.rightPanel.tabs) >= 1
  /\ splitLayout.bottomPanel.present => Len(splitLayout.bottomPanel.tabs) >= 1

\* C7: for each existing panel, activeTabId is either unset or the id of a tab
\* in that panel's tabs list.
C7_ActiveTabInPanel ==
  \A panel \in Panels :
    panel.present => (panel.activeTabId = NoId \/ HasId(panel.tabs, panel.activeTabId))

\* C8: a drop on the right zone of a tab X dragged from a left panel of at least
\* two tabs removes X from the left panel, keeps the remaining left tabs in
\* order with the first of them active, and puts X at the end of the right
\* panel (created if absent) as its active tab.
C8_DropLeftToRight ==
  [][(IsDrop("left", "right") /\ Len(splitLayout.leftPanel.tabs) >= 2)
       => LET X == dragState.draggedTab.id
              remaining == WithoutId(splitLayout.leftPanel.tabs, X)
              before == splitLayout.rightPanel.tabs
              after == splitLayout'.rightPanel.tabs
          IN /\ splitLayout'.leftPanel.tabs = remaining
             /\ Len(remaining) > 0 => splitLayout'.leftPanel.activeTabId = remaining[1].id
             /\ splitLayout'.rightPanel.present
             /\ Len(after) = Len(before) + 1
             /\ SubSeq(after, 1, Len(before)) = before
             /\ after[Len(after)].id = X
             /\ splitLayout'.rightPanel.activeTabId = X]_vars

\* a left-to-right drop into an existing right panel has moved a tab and left
\* two tabs behind
C8_Witness ==
  /\ lastEvent.name = "handleTabDrop" /\ lastEvent.panel = "left" /\ lastEvent.to = "right"
  /\ dragState = IdleDrag
  /\ Len(splitLayout.leftPanel.tabs) = 1
  /\ splitLayout.leftPanel.activeTabId = splitLayout.leftPanel.tabs[1].id
  /\ Len(splitLayout.rightPanel.tabs) = 2
  /\ splitLayout.rightPanel.tabs[2].id = lastEvent.id
  /\ splitLayout.rightPanel.activeTabId = lastEvent.id
  /\ ~HasId(splitLayout.leftPanel.tabs, lastEvent.id)

\* C9: a drop on the left zone of a tab X dragged from the right or the bottom
\* panel, while the left panel holds a non-empty list L of other tabs, leaves
\* the left panel holding exactly X, active, X out of its source panel, and
\* every tab of L held by some panel.
C9_DropOntoLeft ==
  [][\A from \in {"right", "bottom"} :
       (/\ IsDrop(from, "left")
        /\ Len(splitLayout.leftPanel.tabs) >= 1
        /\ ~HasId(splitLayout.leftPanel.tabs, dragState.draggedTab.id))
       => LET X == dragState.draggedTab.id IN
          /\ Len(splitLayout'.leftPanel.tabs) = 1
          /\ splitLayout'.leftPanel.tabs[1].id = X
          /\ splitLayout'.leftPanel.activeTabId = X
          /\ ~HasId(PanelOf(splitLayout', from).tabs, X)
          /\ IdsOf(splitLayout.leftPanel.tabs) \subseteq PanelIdsOf(splitLayout')]_vars

\* a tab dragged from the bottom panel was dropped on a left panel holding two
\* other tabs, which are now in the right panel
C9_Witness ==
  /\ lastEvent.name = "handleTabDrop" /\ lastEvent.panel = "bottom" /\ lastEvent.to = "left"
  /\ dragState = IdleDrag
  /\ Len(splitLayout.leftPanel.tabs) = 1
  /\ splitLayout.leftPanel.tabs[1].id = lastEvent.id
  /\ Len(splitLayout.rightPanel.tabs) = 2
  /\ ~HasId(splitLayout.rightPanel.tabs, lastEvent.id)
  /\ ~splitLayout.bottomPanel.present

\* C10: a drop whose target zone is the panel the drag started from leaves the
\* registry and the whole panel layout unchanged and resets the drag state.
C10_SamePanelDropIsNoOp ==
  [][(\E p \in PanelIds : IsDrop(p, p))
       => (UNCHANGED <<tabs, splitLayout>> /\ dragState' = IdleDrag)]_vars

\* C11: a drop whose dragged tab is not in the tabs list of the source panel
\* recorded at drag start (or whose source panel is gone) changes neither the
\* layout nor the registry and itself resets the drag state to idle.
IsDropWithoutSource ==
  /\ lastEvent'.name = "handleTabDrop"
  /\ dragState.isDragging
  /\ SourceTab(splitLayout, dragState) = NoTab

C11_DropWithoutSourceResetsDrag ==
  [][IsDropWithoutSource
       => (UNCHANGED <<tabs, splitLayout>> /\ dragState' = IdleDrag)]_vars

\* C12: handleTabDragEnd in any state, and every drop that moves a tab, leaves
\* the drag state idle: isDragging false, no dragged tab, no source panel,
\* dropZone null.
C12_DragEndsIdle ==
  [][(\/ lastEvent'.name = "handleTabDragEnd"
      \/ \E from \in PanelIds, to \in PanelIds : IsDrop(from, to))
       => (/\ ~dragState'.isDragging
           /\ dragState'.draggedTab = NoTab
           /\ dragState'.draggedFromPanel = "none"
           /\ dragState'.dropZone = NoZone)]_vars

\* a drag of a tab that had entered a drop zone was ended by handleTabDragEnd
C12_Witness ==
  /\ lastEvent.name = "handleTabDragEnd"
  /\ lastEvent.id # NoId
  /\ lastEvent.panel \in PanelIds
  /\ dragState = IdleDrag

\* C13: the tab a drop inserts into the target panel carries the content and
\* isDirty of the source panel's copy at the moment of the drop, not of the
\* snapshot taken at drag start.  The inserted tab is the last of the target
\* panel's list (the only one, for the left panel).
C13_DropCarriesCurrentCopy ==
  [][\A from \in PanelIds, to \in PanelIds :
       (IsDrop(from, to) /\ from # to)
       => LET source == Find(PanelOf(splitLayout, from).tabs, dragState.draggedTab.id)
              after == PanelOf(splitLayout', to).tabs
          IN /\ Len(after) >= 1
             /\ after[Len(after)].id = source.id
             /\ after[Len(after)].content = source.content
             /\ after[Len(after)].isDirty = source.isDirty]_vars

\* a tab edited between drag start and drop has arrived in another panel with
\* the edited content
C13_Witness ==
  /\ lastEvent.name = "handleTabDrop"
  /\ lastEvent.panel # lastEvent.to
  /\ dragState = IdleDrag
  /\ LET after == PanelOf(splitLayout, lastEvent.to).tabs IN
     /\ Len(after) >= 1
     /\ after[Len(after)].id = lastEvent.id
     /\ after[Len(after)].content # lastEvent.dragged.content
     /\ after[Len(after)].isDirty /\ ~lastEvent.dragged.isDirty

\* C14: once a close of a tab from a panel has fully completed (the deferred
\* step of the left close button, or the right / bottom close button, which
\* has no deferred step), the tab is in the registry if and only if some
\* panel still holds it.  Stated for a tab that was in the registry when the
\* close completed.
C14_ClosedTabInRegistryIffHeld ==
  [][(lastEvent'.name \in {"closeTimer", "closeButton"} /\ HasId(tabs, lastEvent'.id))
       => (HasId(tabs', lastEvent'.id) <=> lastEvent'.id \in PanelIdsOf(splitLayout'))]_vars

\* C15: after a drop on the right zone has created the right panel with the
\* dropped tab alone in it, closing that tab in the right panel removes the
\* right panel again and leaves the tab, which no panel holds, out of the
\* registry.
C15_CloseAfterDropRight ==
  [][(/\ lastEvent.name = "handleTabDrop" /\ lastEvent.to = "right"
      /\ lastEvent.panel \in {"left", "bottom"}
      /\ dragState = IdleDrag
      /\ Len(splitLayout.rightPanel.tabs) = 1
      /\ splitLayout.rightPanel.tabs[1].id = lastEvent.id
      /\ lastEvent.id \notin IdsOf(splitLayout.leftPanel.tabs) \cup IdsOf(splitLayout.bottomPanel.tabs)
      /\ lastEvent'.name = "closeButton" /\ lastEvent'.panel = "right")
       => (/\ ~splitLayout'.rightPanel.present
           /\ ~HasId(tabs', lastEvent.id))]_vars

\* the step is handleSplitRight acting on tab T (the registry tab named by the
\* global activeTabId)
IsSplitOf(T) ==
  /\ lastEvent'.name = "handleSplitRight"
  /\ T # NoId
  /\ Find(tabs, activeTabId).id = T

\* C16: handleSplitRight applied to a tab that is in the left panel together
\* with at least one other tab moves it: afterwards it is in the right panel,
\* the tabs the right panel held are still there, and it is no longer in the
\* left panel.
C16_SplitRightMoves ==
  [][\A T \in IdsOf(tabs) :
       (/\ IsSplitOf(T)
        /\ HasId(splitLayout.leftPanel.tabs, T)
        /\ Len(splitLayout.leftPanel.tabs) >= 2)
       => (/\ splitLayout'.rightPanel.present
           /\ HasId(splitLayout'.rightPanel.tabs, T)
           /\ IdsOf(splitLayout.rightPanel.tabs) \subseteq IdsOf(splitLayout'.rightPanel.tabs)
           /\ ~HasId(splitLayout'.leftPanel.tabs, T))]_vars

\* C17: handleSplitRight changes neither the layout nor the registry when the
\* tab it targets is not in the left panel or is the left panel's only tab.
C17_SplitRightRejects ==
  [][\A T \in IdsOf(tabs) :
       (/\ IsSplitOf(T)
        /\ \/ ~HasId(splitLayout.leftPanel.tabs, T)
           \/ Len(splitLayout.leftPanel.tabs) = 1)
       => UNCHANGED <<tabs, splitLayout>>]_vars

\* the tabs of arr other than those with id T are what they were in old
OthersUnchanged(old, arr, T) ==
  /\ Len(arr) = Len(old)
  /\ \A i \in 1..Len(old) : old[i].id # T => arr[i] = old[i]

\* every tab of arr with id T has content v and isDirty true, all else as in old
SetTo(old, arr, T, v) ==
  /\ Len(arr) = Len(old)
  /\ \A i \in 1..Len(old) :
       old[i].id = T => arr[i] = [old[i] EXCEPT !.content = v, !.isDirty = TRUE]

\* C18: an edit delivering text v through the editor of tab T shown in panel P
\* sets, within that one event, both the registry entry of T and P's copy of T
\* to content v with isDirty true (also when v is the previous content) and
\* changes no other tab.
C18_EditWritesRegistryAndCopy ==
  [][\A P \in PanelIds, v \in Contents :
       (/\ lastEvent'.name = "editorChange"
        /\ lastEvent'.panel = P
        /\ lastEvent'.to = v)
       => LET T == lastEvent'.id IN
          /\ HasId(tabs', T)
          /\ SetTo(tabs, tabs', T, v)
          /\ OthersUnchanged(tabs, tabs', T)
          /\ HasId(PanelOf(splitLayout', P).tabs, T)
          /\ SetTo(PanelOf(splitLayout, P).tabs, PanelOf(splitLayout', P).tabs, T, v)
          /\ \A Q \in PanelIds :
               OthersUnchanged(PanelOf(splitLayout, Q).tabs, PanelOf(splitLayout', Q).tabs, T)]_vars

\* the same, for a tab the registry holds when the edit arrives
C18_EditOfRegisteredTab ==
  [][\A P \in PanelIds, v \in Contents :
       (/\ lastEvent'.name = "editorChange"
        /\ lastEvent'.panel = P
        /\ lastEvent'.to = v
        /\ HasId(tabs, lastEvent'.id))
       => LET T == lastEvent'.id IN
          /\ SetTo(tabs, tabs', T, v)
          /\ OthersUnchanged(tabs, tabs', T)
          /\ SetTo(PanelOf(splitLayout, P).tabs, PanelOf(splitLayout', P).tabs, T, v)
          /\ \A Q \in PanelIds :
               OthersUnchanged(PanelOf(splitLayout, Q).tabs, PanelOf(splitLayout', Q).tabs, T)]_vars

\* C19: after handleSave or handleSaveAs has completed successfully for tab T,
\* isDirty is false in the registry entry of T and in every panel's copy of T,
\* and after a save-as the copies carry the registry entry's new title and
\* filePath.  Stated for a tab the registry holds when the write completes.
C19_SaveCleansRegistryAndCopy ==
  [][(lastEvent'.name = "saveCompletes" /\ HasId(tabs, lastEvent'.id))
       => LET T == lastEvent'.id
              entry == Find(tabs', T)
          IN /\ ~entry.isDirty
             /\ \A P \in PanelIds :
                  \A i \in 1..Len(PanelOf(splitLayout', P).tabs) :
                    LET copy == PanelOf(splitLayout', P).tabs[i] IN
                    copy.id = T
                    => (/\ ~copy.isDirty
                        /\ lastEvent'.to = "saveAs"
                             => (copy.title = entry.title /\ copy.filePath = entry.filePath))]_vars

\* C20: a registry tab whose isDirty is false has the content it was created
\* or loaded with, or the content last successfully written for it.
C20_CleanTabMatchesFile ==
  \A i \in 1..Len(tabs) :
    ~tabs[i].isDirty
    => <<tabs[i].id, tabs[i].content>> \in fileHistory.created \cup fileHistory.written

\* C21: an open or save whose dialog is cancelled, or whose readFile / writeFile
\* fails, changes neither the registry nor the panel layout: the step that issues
\* the operation and the step that abandons it both leave them as they were.
C21_AbandonedIoChangesNothing ==
  [][lastEvent'.name \in {"handleOpen", "handleSave", "handleSaveAs",
                          "openAbandoned", "saveAbandoned"}
     => UNCHANGED <<tabs, splitLayout>>]_vars

\* a write failed for a tab that is dirty in the registry
C21_Witness ==
  /\ lastEvent.name = "saveAbandoned"
  /\ lastEvent.to = "writeFailed"
  /\ \E i \in 1..Len(tabs) : tabs[i].id = lastEvent.id /\ tabs[i].isDirty

\* the step enters compare mode / the step leaves it
EntersCompare == /\ lastEvent'.name \in {"handleCompareFiles", "startTabComparison"}
                 /\ lastEvent'.to = "entered"

LeavesCompare == lastEvent'.name \in {"onExitCompare", "menuExitCompare"}

\* C22: entering compare mode from a layout S and then leaving it (Exit Compare
\* button or menu-exit-compare) gives back S: the same panels with the same tabs
\* in the same order and the same active tabs.
C22_ExitCompareRestoresLayout ==
  [][(/\ lastEvent.name \in {"handleCompareFiles", "startTabComparison"}
      /\ lastEvent.to = "entered"
      /\ LeavesCompare)
     => splitLayout' = lastEvent.layoutBefore]_vars

\* C23: a compare request for two tabs of which one has empty (or whitespace-only)
\* content is rejected, on the two-tab path of handleCompareFiles and on the
\* selector path of startTabComparison: a step that enters compare mode compares
\* two non-empty contents.
C23_EmptyContentRejected ==
  [][EntersCompare => (compareFiles'.left # "" /\ compareFiles'.right # "")]_vars

\* C24: handleCompareFiles with fewer than two tabs in the registry leaves
\* compare mode off and changes neither the panel layout, nor the registry, nor
\* the tab selector.
C24_CompareNeedsTwoTabs ==
  [][(lastEvent'.name = "handleCompareFiles" /\ Len(tabs) < 2)
     => UNCHANGED <<isCompareMode, splitLayout, tabs, showTabSelector,
                    selectedLeftTab, selectedRightTab>>]_vars

\* the request passed the debounce test and found one tab, outside compare mode
C24_Witness ==
  /\ lastEvent.name = "handleCompareFiles"
  /\ Len(tabs) = 1
  /\ lastCompareTime = now
  /\ ~isCompareMode

\* C25: startTabComparison with the same tab id selected on both sides does not
\* enter compare mode and leaves the panel layout and the registry unchanged.
C25_SameTabNotCompared ==
  [][(lastEvent'.name = "startTabComparison" /\ selectedLeftTab = selectedRightTab)
     => UNCHANGED <<isCompareMode, splitLayout, tabs>>]_vars

\* the selector was confirmed with one registered tab chosen on both sides
C25_Witness ==
  /\ lastEvent.name = "startTabComparison"
  /\ selectedLeftTab = selectedRightTab
  /\ HasId(tabs, selectedLeftTab)
  /\ showTabSelector
  /\ ~isCompareMode

\* C26: while compare mode stays on, no registry tab's content or isDirty
\* changes and the displayed pair stays the one taken at entry (stated for the
\* steps that create no tab, so that every tab compared is one that was there).
C26_CompareModeFreezesTabs ==
  [][(/\ isCompareMode /\ isCompareMode' /\ ~EntersCompare
      /\ lastEvent'.name \notin {"handleNew", "openCompletes"})
     => /\ compareFiles' = compareFiles
        /\ \A i \in 1..Len(tabs) :
             HasId(tabs', tabs[i].id)
             => /\ Find(tabs', tabs[i].id).content = Find(tabs, tabs[i].id).content
                /\ Find(tabs', tabs[i].id).isDirty = Find(tabs, tabs[i].id).isDirty]_vars

\* C27: no two tabs of the registry share an id, whatever the clock read when
\* handleNew or handleOpen created them.
C27_RegistryIdsUnique ==
  \A i, j \in 1..Len(tabs) : i # j => tabs[i].id # tabs[j].id

\* the step appended one tab, not dirty, to the registry and to the left panel
\* and made it the left panel's active tab, the other panels staying as they were
AppendsOneTab ==
  \E t \in {tabs'[k] : k \in 1..Len(tabs')} :
    /\ tabs' = Append(tabs, t)
    /\ ~t.isDirty
    /\ splitLayout'.leftPanel.tabs = Append(splitLayout.leftPanel.tabs, t)
    /\ splitLayout'.leftPanel.activeTabId = t.id
    /\ splitLayout'.rightPanel = splitLayout.rightPanel
    /\ splitLayout'.bottomPanel = splitLayout.bottomPanel

\* C28: handleNew and a successful handleOpen each append exactly one new tab
\* with isDirty false at the end of the registry and at the end of the left
\* panel's tabs and make it the left panel's active tab; the right and bottom
\* panels are unchanged.
C28_CreateAppendsOneTab ==
  [][lastEvent'.name \in {"handleNew", "openCompletes"} => AppendsOneTab]_vars

\* C28 for handleNew, and for a handleOpen during which the registry was not
\* changed (its closed-over tabs are the registry's tabs when it completes)
C28_CreateOnCurrentRegistry ==
  [][(\/ lastEvent'.name = "handleNew"
      \/ /\ lastEvent'.name = "openCompletes"
         /\ \E i \in 1..Len(openCalls) :
              openCalls' = RemoveAt(openCalls, i) /\ openCalls[i] = tabs)
     => AppendsOneTab]_vars

\* C29: after a restart every tab that a panel held before it is open again, in
\* the registry and in the left panel, with the content it had, and the active
\* tab is the saved active tab id whenever that tab is among the restored tabs.
C29_RestartRestoresSession ==
  [][lastEvent'.name = "restart"
     => /\ \A p \in Panels : \A i \in 1..Len(p.tabs) :
             /\ HasId(tabs', p.tabs[i].id)
             /\ HasId(splitLayout'.leftPanel.tabs, p.tabs[i].id)
             /\ Find(tabs', p.tabs[i].id).content = p.tabs[i].content
        /\ (storedActiveTabId.set /\ HasId(tabs', storedActiveTabId.value))
             => activeTabId' = storedActiveTabId.value]_vars

\* C30: a set-active request for a tab id that is not in the addressed tab list
\* leaves the active-tab pointer and all other state unchanged (store setActiveTab).
C30_SetActiveOfUnknownTab ==
  [][(lastEvent'.name = "store.setActiveTab" /\ ~HasId(storeTabs, lastEvent'.id))
     => UNCHANGED <<storeActiveTabId, storeTabs>>]_vars

\* every variable of the App and of the store but the two that record history
ProgramState ==
  <<tabs, activeTabId, splitLayout, dragState, compareVars, clockVars, asyncVars,
    fileHistory, storedTabs, storedActiveTabId, resize, menuListeners,
    storeVars>>

\* C31: selecting the same tab of a panel twice in a row gives exactly the state
\* that selecting it once gave: the second click changes nothing.
C31_SecondSelectChangesNothing ==
  [][(lastEvent'.name = "tabClick" /\ lastEvent'.to = "again" /\ events' = events + 1)
     => UNCHANGED ProgramState]_vars

\* a tab of a panel with several tabs was clicked twice in a row
C31_Witness ==
  /\ lastEvent.name = "tabClick"
  /\ lastEvent.to = "again"
  /\ Len(PanelOf(splitLayout, lastEvent.panel).tabs) >= 2
  /\ PanelOf(splitLayout, lastEvent.panel).activeTabId = lastEvent.id

\* C32: after a close button or a drop has removed a tab from a panel that
\* keeps at least one other tab, that panel's activeTabId is the first of the
\* remaining tabs in display order.
C32_FirstRemainingTabActive ==
  [][lastEvent'.name \in {"closeTabFromPanel", "closeButton", "handleTabDrop"}
     => \A p \in PanelIds :
          (/\ HasId(PanelOf(splitLayout, p).tabs, lastEvent'.id)
           /\ ~HasId(PanelOf(splitLayout', p).tabs, lastEvent'.id)
           /\ Len(PanelOf(splitLayout', p).tabs) >= 1)
          => PanelOf(splitLayout', p).activeTabId = PanelOf(splitLayout', p).tabs[1].id]_vars

\* the right panel's close button removed a tab and another tab remains there
C32_Witness ==
  /\ lastEvent.name = "closeButton"
  /\ lastEvent.panel = "right"
  /\ splitLayout.rightPanel.present
  /\ Len(splitLayout.rightPanel.tabs) >= 1
  /\ ~HasId(splitLayout.rightPanel.tabs, lastEvent.id)

\* C33: in every reachable state splitRatio and bottomSplitRatio lie within
\* 20..80, whatever pointer positions a divider drag delivered.
C33_SplitRatiosInRange ==
  /\ splitLayout.splitRatio \in 20..80
  /\ splitLayout.bottomSplitRatio \in 20..80

\* a pointer position beyond the container's far edge was delivered
C33_Witness ==
  /\ lastEvent.name = "resizeMouseMove"
  /\ lastEvent.panel = "vertical"
  /\ lastEvent.to = 1000
  /\ splitLayout.splitRatio = 80

\* C34: a handleCompareFiles invocation less than 500 ms after the last accepted
\* one changes no state at all, lastCompareTime included: the 500 ms window is
\* not restarted.
C34_DebouncedCompareChangesNothing ==
  [][(/\ lastEvent'.name = "handleCompareFiles"
      /\ events' = events + 1
      /\ now - lastCompareTime < 500)
     => UNCHANGED ProgramState]_vars

\* an invocation was rejected one millisecond after an accepted one
C34_Witness ==
  /\ lastEvent.name = "handleCompareFiles"
  /\ lastCompareTime = StartNow
  /\ now = lastCompareTime + 1

\* C35: handleDropZoneEnter and handleDropZoneLeave change only
\* dragState.dropZone, never isDragging, the dragged tab, its source panel, the
\* layout or the registry; handleDropZoneEnter while no drag is in progress
\* changes nothing.
C35_ZoneHoverOnlySetsDropZone ==
  [][(lastEvent'.name \in {"handleDropZoneEnter", "handleDropZoneLeave"}
      /\ events' = events + 1)
     => /\ UNCHANGED <<tabs, activeTabId, splitLayout, compareVars, clockVars, asyncVars,
                       fileHistory, storedTabs, storedActiveTabId, resize, menuListeners,
                       storeVars>>
        /\ dragState'.isDragging = dragState.isDragging
        /\ dragState'.draggedTab = dragState.draggedTab
        /\ dragState'.draggedFromPanel = dragState.draggedFromPanel
        /\ (lastEvent'.name = "handleDropZoneEnter" /\ ~dragState.isDragging)
             => UNCHANGED dragState]_vars

\* the right zone was entered while no drag was in progress
C35_Witness ==
  /\ lastEvent.name = "handleDropZoneEnter"
  /\ lastEvent.to = "right"
  /\ ~dragState.isDragging
  /\ dragState.dropZone = NoZone

\* C36: a handleOpen that completes after other events were handled adds only
\* its own tab: every tab that was in the registry just before the completion is
\* still there afterwards with the same content and isDirty (stated for the
\* tabs whose id is not the one the opened tab receives).
C36_OpenKeepsRegistry ==
  [][lastEvent'.name = "openCompletes"
     => \A i \in 1..Len(tabs) :
          tabs[i].id # lastEvent'.id
          => /\ HasId(tabs', tabs[i].id)
             /\ Find(tabs', tabs[i].id).content = Find(tabs, tabs[i].id).content
             /\ Find(tabs', tabs[i].id).isDirty = Find(tabs, tabs[i].id).isDirty]_vars

\* C37: in every reachable state the registry tab named by the global
\* activeTabId, the one handleSave, handleSaveAs and handleLanguageChange act
\* on, is the active tab of at least one panel.
C37_GlobalActiveTabIsSelected ==
  HasId(tabs, activeTabId)
  => \E p \in Panels : p.present /\ p.activeTabId = activeTabId /\ HasId(p.tabs, activeTabId)

\* C38: in every reachable state dragState.isDragging is true exactly when
\* draggedTab and draggedFromPanel are both set, and dropZone is non-null only
\* while isDragging is true.
C38_DragStateConsistent ==
  /\ dragState.isDragging
       <=> (dragState.draggedTab # NoTab /\ dragState.draggedFromPanel # "none")
  /\ dragState.dropZone # NoZone => dragState.isDragging

\* a drag is in progress over the bottom zone
C38_Witness ==
  /\ lastEvent.name = "handleDropZoneEnter"
  /\ dragState.isDragging
  /\ dragState.dropZone = "bottom"
  /\ dragState.draggedTab.id # NoId

\* C39: after any number of re-runs of the menu-listener effect every subscribed
\* menu channel has exactly one renderer listener, so that one menu click runs
\* its handler exactly once.
C39_OneListenerPerChannel ==
  \A c \in MenuChannels : menuListeners[c] = 1

\* C40: in the editor store, after any sequence of addTab, closeTab and
\* setActiveTab on ids of open tabs, activeTabId is null exactly when tabs is
\* empty and is otherwise the id of a tab in tabs.
C40_StoreActiveTabIsOpen ==
  /\ storeActiveTabId = NoId <=> Len(storeTabs) = 0
  /\ Len(storeTabs) > 0 => \E i \in 1..Len(storeTabs) : storeTabs[i].id = storeActiveTabId

\* the last open tab of the store was closed
C40_Witness ==
  /\ lastEvent.name = "store.closeTab"
  /\ Len(storeTabs) = 0
  /\ storeActiveTabId = NoId

\* ------------------------------------------------------- specifications
\* one event of a run of the whole App
Step(A) == events < MaxEvents /\ A /\ events' = events + 1 /\ UNCHANGED storeVars

\* an event handled by the mounted App: the render it causes runs the menu effect
Handled(A) ==
  /\ Step(A)
  /\ menuListeners' = MenuEffect(menuListeners, tabs, activeTabId, tabs', activeTabId')

\* an event that is no part of a divider drag
Counted(A) == Handled(A) /\ UNCHANGED resize

Next ==
  \/ Counted(Tick)
  \/ Counted(handleNew)
  \/ Counted(handleOpen)
  \/ Counted(OpenAbandoned)
  \/ Counted(OpenCompletes)
  \/ Counted(handleSave)
  \/ Counted(handleSaveAs)
  \/ Counted(SaveAbandoned)
  \/ Counted(SaveCompletes)
  \/ Counted(handleSplitRight)
  \/ Counted(TabDragStart)
  \/ Counted(handleTabDragEnd)
  \/ Counted(DropZoneEnter)
  \/ Counted(handleDropZoneLeave)
  \/ Counted(TabDrop)
  \/ Counted(TabClick)
  \/ Counted(Edit)
  \/ Counted(LeftCloseButton)
  \/ Counted(CloseTimerFires)
  \/ Counted(PanelCloseButton)
  \/ Counted(handleCompareFiles)
  \/ Counted(SelectCompareTab)
  \/ Counted(CloseTabSelector)
  \/ Counted(startTabComparison)
  \/ Counted(onExitCompare)
  \/ Counted(menuExitCompare)
  \/ Handled(handleVerticalResize)
  \/ Handled(handleHorizontalResize)
  \/ Handled(ResizeMouseMove)
  \/ Handled(ResizeMouseUp)
  \/ Step(Restart)

\* every run of at most MaxEvents events of the App
Spec == Init /\ [][Next]_vars

\* the calls a component can make on the editor store
StoreNext ==
  \/ Store_addTab
  \/ Store_closeTab
  \/ Store_setActiveTab
  \/ Store_updateTabContent
  \/ Store_markTabDirty

\* every run of the editor store
StoreSpec == Init /\ [][StoreNext]_vars

\* the calls a component makes with the ids of open tabs
StoreOpenNext ==
  \/ Store_addTab
  \/ Store_closeOpenTab
  \/ Store_setActiveOpenTab
  \/ Store_updateTabContent
  \/ Store_markTabDirty

\* every run of the editor store in which closeTab and setActiveTab name open tabs
StoreOpenSpec == Init /\ [][StoreOpenNext]_vars
====
